---- MODULE Spec2Model ----
(***************************************************************************)
(* Model of ssh_manager.py: a kitty kitten that selects, creates and       *)
(* deletes SSH profiles kept in the macOS Keychain under the account       *)
(* 'kitty-ssh'.  Strings are sequences of one-character strings.           *)
(***************************************************************************)
EXTENDS Integers, Sequences, FiniteSets, TLC

\* ------------------------------------------------------------------ bounds
MaxLen == 2        \* longest name / user / host drawn for the codec
MaxKeyLen == 4     \* longest raw key drawn for the codec
MaxKeys == 2       \* most entries in the keychain when main starts
MaxRuns == 1       \* invocations of main after the first one

\* ---------------------------------------------------------- string helpers
Whitespace == {" ", "\n"}

Contains(s, c) == \E i \in 1..Len(s) : s[i] = c

FirstIndex(s, c) == CHOOSE i \in 1..Len(s) : s[i] = c /\ \A j \in 1..(i-1) : s[j] # c

LastIndex(s, c) == CHOOSE i \in 1..Len(s) : s[i] = c /\ \A j \in (i+1)..Len(s) : s[j] # c

\* str.split(c, 1) for a string that contains c
SplitOnce(s, c) == <<SubSeq(s, 1, FirstIndex(s, c) - 1), SubSeq(s, FirstIndex(s, c) + 1, Len(s))>>

\* str.rsplit(c, 1) for a string that contains c
RSplitOnce(s, c) == <<SubSeq(s, 1, LastIndex(s, c) - 1), SubSeq(s, LastIndex(s, c) + 1, Len(s))>>

RECURSIVE LStrip(_)
LStrip(s) == IF s # <<>> /\ Head(s) \in Whitespace THEN LStrip(Tail(s)) ELSE s

RECURSIVE RStrip(_)
RStrip(s) == IF s # <<>> /\ s[Len(s)] \in Whitespace THEN RStrip(SubSeq(s, 1, Len(s) - 1)) ELSE s

\* str.strip()
Strip(s) == RStrip(LStrip(s))

\* str.split("\n")
RECURSIVE SplitLines(_)
SplitLines(s) ==
  IF Contains(s, "\n") THEN <<SplitOnce(s, "\n")[1]>> \o SplitLines(SplitOnce(s, "\n")[2])
  ELSE <<s>>

\* str.startswith(p)
StartsWith(s, p) == Len(s) >= Len(p) /\ SubSeq(s, 1, Len(p)) = p

LowerChar(c) == IF c = "N" THEN "n" ELSE IF c = "O" THEN "o" ELSE c

\* str.lower()
Lower(s) == [i \in 1..Len(s) |-> LowerChar(s[i])]

\* all strings over alphabet A of length at most n
RECURSIVE StrUpTo(_, _)
StrUpTo(A, n) ==
  IF n = 0 THEN {<<>>}
  ELSE StrUpTo(A, n - 1) \cup {Append(s, c) : s \in {t \in StrUpTo(A, n - 1) : Len(t) = n - 1}, c \in A}

\* ------------------------------------------------------- service-key codec
\* the f-string of add_ssh_to_keychain
ServiceKey(friendly_name, user, host) == friendly_name \o <<"|">> \o user \o <<"@">> \o host

\* mutant: splits the key on its last "|"
parse_service_name_rsplit(service) ==
  IF Contains(service, "|") /\ Contains(RSplitOnce(service, "|")[2], "@")
  THEN <<RSplitOnce(service, "|")[1],
         SplitOnce(RSplitOnce(service, "|")[2], "@")[1],
         SplitOnce(RSplitOnce(service, "|")[2], "@")[2]>>
  ELSE <<service, <<>>, <<>>>>

\* mutant: a connection part without "@" keeps only the part before "|"
parse_service_name_partial(service) ==
  IF Contains(service, "|")
  THEN IF Contains(SplitOnce(service, "|")[2], "@")
       THEN <<SplitOnce(service, "|")[1],
              SplitOnce(SplitOnce(service, "|")[2], "@")[1],
              SplitOnce(SplitOnce(service, "|")[2], "@")[2]>>
       ELSE <<SplitOnce(service, "|")[1], <<>>, <<>>>>
  ELSE <<service, <<>>, <<>>>>

parse_service_name(service) ==
  IF Contains(service, "|") /\ Contains(SplitOnce(service, "|")[2], "@")
  THEN <<SplitOnce(service, "|")[1],
         SplitOnce(SplitOnce(service, "|")[2], "@")[1],
         SplitOnce(SplitOnce(service, "|")[2], "@")[2]>>
  ELSE <<service, <<>>, <<>>>>

\* mutant: only the friendly name is displayed
format_display_name_short(service) == parse_service_name(service)[1]

format_display_name(service) ==
  LET p == parse_service_name(service)
  IN IF p[2] # <<>> /\ p[3] # <<>>
     THEN p[1] \o <<" ", "(">> \o p[2] \o <<"@">> \o p[3] \o <<")">>
     ELSE p[1]

\* ------------------------------------------------------- selector protocol
DeletePrefix == <<"D", "E", "L", "E", "T", "E", ":">>

\* display_items of select_key_with_fzf
DisplayItems(keys) == [i \in 1..Len(keys) |-> format_display_name(keys[i])]

HasMatch(items, text) == \E i \in 1..Len(items) : items[i] = text

\* the index at which the for loop over display_items returns
FirstMatch(items, text) == CHOOSE i \in 1..Len(items) : items[i] = text /\ \A j \in 1..(i-1) : items[j] # text

\* mutant: the text after the prefix is used as the key without the lookup
InterpretDeleteAsIs(keys, output) == <<SubSeq(output, Len(DeletePrefix) + 1, Len(output)), TRUE>>

\* the ctrl-d branch: output starts with DELETE:
InterpretDelete(keys, output) ==
  LET display_name == SubSeq(output, Len(DeletePrefix) + 1, Len(output))
  IN IF HasMatch(DisplayItems(keys), display_name)
     THEN <<keys[FirstMatch(DisplayItems(keys), display_name)], TRUE>>
     ELSE <<display_name, TRUE>>

\* the exit status 0 branch: the chosen line is looked up in display_items
InterpretSelection(keys, output) ==
  LET output_lines == SplitLines(output)
      last_line == output_lines[Len(output_lines)]
      selected_display == IF last_line = <<>> /\ Len(output_lines) > 1
                          THEN output_lines[Len(output_lines) - 1] ELSE last_line
  IN IF HasMatch(DisplayItems(keys), selected_display)
     THEN <<keys[FirstMatch(DisplayItems(keys), selected_display)], FALSE>>
     ELSE <<<<>>, FALSE>>

\* the exit status 1 branch: the typed query, cut at "(" when it looks like a display string
NewName(output) ==
  LET first_line == SplitLines(output)[1]
  IN IF Contains(first_line, "(") /\ Contains(first_line, ")") /\ Contains(first_line, "@")
     THEN Strip(SplitOnce(first_line, "(")[1]) ELSE first_line

\* mutant: every exit status but 0 is taken as new text
InterpretStatusNoCancel(keys, returncode, output) ==
  IF returncode = 0 THEN InterpretSelection(keys, output) ELSE <<NewName(output), FALSE>>

\* the branches on the exit status, for output without the DELETE: prefix
InterpretStatus(keys, returncode, output) ==
  IF returncode = 130 THEN <<<<>>, FALSE>>
  ELSE IF returncode = 0 THEN InterpretSelection(keys, output)
  ELSE IF returncode = 1 THEN <<NewName(output), FALSE>>
  ELSE <<<<>>, FALSE>>

\* the interpretation of the selector's (exit status, stdout): <<selected_key, is_delete>>
select_key_with_fzf(keys, returncode, stdout) ==
  IF StartsWith(Strip(stdout), DeletePrefix)
  THEN InterpretDelete(keys, Strip(stdout))
  ELSE InterpretStatus(keys, returncode, Strip(stdout))

\* --------------------------------------------------------- secret store
\* get_existing_keys on the text awk prints for the entries in dump order
ListedKeys(order) ==
  LET RECURSIVE Joined(_)
      Joined(ks) == IF ks = <<>> THEN <<>> ELSE Head(ks) \o <<"\n">> \o Joined(Tail(ks))
      output == Joined(order)
      lines == SplitLines(Strip(output))
  IN IF output # <<>>
     THEN [i \in 1..Len(SelectSeq(lines, LAMBDA l : Strip(l) # <<>>)) |->
             Strip(SelectSeq(lines, LAMBDA l : Strip(l) # <<>>)[i])]
     ELSE <<>>

\* the command main returns on a successful connect
SSHCommand(user, host) ==
  <<
     "k", "i", "t", "t", "y", " ", "+", "k", "i", "t", "t", "e", "n", " ", "s", "s", "h", " ", "-", "o",
     " ", "U", "s", "e", "r", "K", "n", "o", "w", "n", "H", "o", "s", "t", "s", "F", "i", "l", "e", "=",
     "/", "d", "e", "v", "/", "n", "u", "l", "l", " ", "-", "o", " ", "S", "t", "r", "i", "c", "t", "H",
     "o", "s", "t", "K", "e", "y", "C", "h", "e", "c", "k", "i", "n", "g", "=", "n", "o", " "
  >> \o user \o <<"@">> \o host

InKeys(key, keys) == \E i \in 1..Len(keys) : keys[i] = key

\* ------------------------------------------------------------------ inputs
KeyPool == { <<"a", "|", "b", "@", "h">>, <<"|", "b", "@", "h">>, <<"a", "b">>,
             <<"a", " ", "(", "b", "@", "h", ")">> }
SecretPool == { <<"p">> }
InitStores == UNION { [S -> SecretPool] : S \in {T \in SUBSET KeyPool : Cardinality(T) <= MaxKeys} }

\* all orders in which the dump can list the entries
Orders(S) == { o \in [1..Cardinality(S) -> S] : \A i, j \in 1..Cardinality(S) : o[i] = o[j] => i = j }

ReturnCodes == {0, 1, 2, 130}
NewNames == { <<"c">>, <<"c", " ", "(", "a", "@", "b", ")">>, <<"(", "a", "@", "b", ")">>,
              <<"c", "|", "@">> }
Queries == { <<>>, <<"a">> }
Texts(keys) == {keys[i] : i \in 1..Len(keys)} \cup {DisplayItems(keys)[i] : i \in 1..Len(keys)} \cup NewNames
\* what the selector can print: the query line and the chosen line, or the ctrl-d echo
Outputs(keys) ==
  {<<>>} \cup {t \o <<"\n">> : t \in Texts(keys)}
         \cup {q \o <<"\n">> \o t \o <<"\n">> : q \in Queries, t \in Texts(keys)}
         \cup {DeletePrefix \o t \o <<"\n">> : t \in Texts(keys) \cup {<<>>}}

UsernameInputs == { <<>>, <<" ", "u">>, <<"@", "u">> }
HostnameInputs == { <<>>, <<"h", " ">> }
PasswordInputs == { <<>>, <<"p">>, <<" ", "p">> }
ConfirmInputs == { <<>>, <<"n", "o">>, <<"n">>, <<" ", "N", "o", " ">>, <<"y">>, <<"o">> }
InputFailures == {"Exception", "KeyboardInterrupt"}

None == <<"none">>

\* ------------------------------------------------------------------- state
VARIABLES
  store,            \* the keychain entries of account 'kitty-ssh': service key -> secret
  runs,             \* invocations of main completed before the current one
  pc,               \* where main is
  existing_keys,    \* main: the keys listed at the start
  fzf_returncode,   \* select_key_with_fzf: the selector's exit status
  fzf_stdout,       \* select_key_with_fzf: the selector's standard output
  selected_key,     \* main
  is_delete,        \* main
  response,         \* confirm_delete
  username,         \* main
  hostname,         \* main
  password,         \* main
  password_confirm, \* main
  error,            \* the exception being handled or propagated: <<kind, message>>
  outcome,          \* "running", "returned" (main returned result) or "raised"
  result,           \* what main returned
  calls,            \* the collaborator calls of this invocation, in order
  target_window,    \* handle_result: what boss.window_id_map.get returned
  pasted,           \* handle_result: what was sent to the target window
  triple,           \* codec: the (name, user, host) encoded
  service,          \* codec: the service key
  parsed,           \* codec: parse_service_name(service)
  shown,            \* codec: format_display_name(service)
  cstep             \* codec: position

selvars == <<fzf_returncode, fzf_stdout, selected_key, is_delete>>
inputvars == <<response, username, hostname, password, password_confirm>>
codecvars == <<triple, service, parsed, shown, cstep>>
hostvars == <<target_window, pasted>>
flowvars == <<store, runs, pc, existing_keys, selvars, inputvars, error, outcome, result, calls, hostvars>>
vars == <<flowvars, codecvars>>

\* ------------------------------------------------------- control of main
Goto(p) == pc' = p /\ UNCHANGED <<error, outcome, result>>

\* a return statement of main
Return(r) == pc' = "done" /\ outcome' = "returned" /\ result' = r /\ UNCHANGED error

\* an exception raised inside the try block of main
Raise(kind, msg) ==
  /\ error' = <<kind, msg>>
  /\ IF kind = "KeyboardInterrupt"
     THEN pc' = "done" /\ outcome' = "returned" /\ result' = <<>>
     ELSE /\ pc' = (IF kind = "KittenError" THEN "except_KittenError" ELSE "except_Exception")
          /\ UNCHANGED <<outcome, result>>

\* an exception raised inside an except clause of main leaves main
Propagate(kind) ==
  pc' = "done" /\ outcome' = "raised" /\ error' = <<kind, <<"kitty_input">>>> /\ UNCHANGED result

\* what kitty_input returns for the line typed
kitty_input(raw) == Strip(raw)

\* the decision of confirm_delete on the lower-cased response
confirm_delete(resp) == resp = <<>> \/ resp \notin { <<"n", "o">>, <<"n">> }

\* ------------------------------------------------------------------- main
FlowInit ==
  /\ store \in InitStores
  /\ runs = 0
  /\ pc = "start"
  /\ existing_keys = <<>>
  /\ fzf_returncode = -1 /\ fzf_stdout = None /\ selected_key = None /\ is_delete = FALSE
  /\ response = None /\ username = None /\ hostname = None
  /\ password = None /\ password_confirm = None
  /\ error = None /\ outcome = "running" /\ result = <<>> /\ calls = <<>>
  /\ target_window = "unset" /\ pasted = <<>>

CodecOff == triple = None /\ service = None /\ parsed = None /\ shown = None /\ cstep = "off"

Init == FlowInit /\ CodecOff

GetExistingKeys ==
  /\ pc = "start"
  /\ UNCHANGED <<store, runs, selvars, inputvars, hostvars, codecvars>>
  /\ \/ \E order \in Orders(DOMAIN store) :
          /\ existing_keys' = ListedKeys(order)
          /\ calls' = Append(calls, <<"get_existing_keys", "ok">>)
          /\ Goto("select")
     \/ /\ existing_keys' = <<>>
        /\ calls' = Append(calls, <<"get_existing_keys", "dump_failed">>)
        /\ Goto("select")
     \/ \E kind \in {"KittenError", "KeyboardInterrupt"} :
          /\ UNCHANGED existing_keys
          /\ calls' = Append(calls, <<"get_existing_keys", "raised">>)
          /\ Raise(kind, <<"Error retrieving keychain keys">>)

\* mutant: a delete is confirmed without looking the key up in the listed keys
MainDispatchNoLookup(key, del) ==
  IF key = <<>> THEN Return(<<>>) /\ UNCHANGED <<username, hostname>>
  ELSE IF del THEN Goto("confirm_delete") /\ UNCHANGED <<username, hostname>>
  ELSE IF InKeys(key, existing_keys)
       THEN /\ username' = parse_service_name(key)[2]
            /\ hostname' = parse_service_name(key)[3]
            /\ IF username' = <<>> \/ hostname' = <<>>
               THEN Raise("KittenError", <<"Invalid SSH connection format">>)
               ELSE Goto("get_password")
  ELSE Goto("username") /\ UNCHANGED <<username, hostname>>

\* lines 411-447 of main: where the selection leads
MainDispatch(key, del) ==
  IF key = <<>> THEN Return(<<>>) /\ UNCHANGED <<username, hostname>>
  ELSE IF del
       THEN /\ UNCHANGED <<username, hostname>>
            /\ IF InKeys(key, existing_keys) THEN Goto("confirm_delete")
               ELSE Raise("KittenError", <<"Cannot delete: does not exist">>)
  ELSE IF InKeys(key, existing_keys)
       THEN /\ username' = parse_service_name(key)[2]
            /\ hostname' = parse_service_name(key)[3]
            /\ IF username' = <<>> \/ hostname' = <<>>
               THEN Raise("KittenError", <<"Invalid SSH connection format">>)
               ELSE Goto("get_password")
  ELSE Goto("username") /\ UNCHANGED <<username, hostname>>

SelectKeyWithFzf ==
  /\ pc = "select"
  /\ UNCHANGED <<store, runs, existing_keys, response, password, password_confirm, hostvars, codecvars>>
  /\ calls' = Append(calls, <<"fzf">>)
  /\ \/ \E rc \in ReturnCodes, out \in Outputs(existing_keys) :
          /\ fzf_returncode' = rc
          /\ fzf_stdout' = out
          /\ selected_key' = select_key_with_fzf(existing_keys, rc, out)[1]
          /\ is_delete' = select_key_with_fzf(existing_keys, rc, out)[2]
          /\ MainDispatch(selected_key', is_delete')
     \/ /\ UNCHANGED <<selvars, username, hostname>>
        /\ \/ Raise("KittenError", <<"fzf command not found">>)
           \/ Raise("KittenError", <<"Error during fzf selection">>)
           \/ Raise("KeyboardInterrupt", <<>>)

ConfirmDelete ==
  /\ pc = "confirm_delete"
  /\ UNCHANGED <<store, runs, existing_keys, selvars, username, hostname, password, password_confirm, hostvars, codecvars>>
  /\ calls' = Append(calls, <<"kitty_input", "confirm_delete">>)
  /\ \/ \E raw \in ConfirmInputs :
          /\ response' = Lower(kitty_input(raw))
          /\ Goto(IF confirm_delete(response') THEN "delete" ELSE "pause")
     \/ \E f \in InputFailures : UNCHANGED response /\ Raise(f, <<"kitty_input">>)

DeleteFromKeychain ==
  /\ pc = "delete"
  /\ UNCHANGED <<runs, existing_keys, selvars, inputvars, hostvars, codecvars>>
  /\ calls' = Append(calls, <<"delete", selected_key>>)
  /\ \/ /\ selected_key \in DOMAIN store
        /\ store' = [k \in DOMAIN store \ {selected_key} |-> store[k]]
        /\ Goto("pause")
     \/ /\ UNCHANGED store
        /\ \E f \in {"KittenError", "Exception", "KeyboardInterrupt"} :
             Raise(f, <<"Error deleting SSH connection from keychain">>)

Pause ==
  /\ pc = "pause"
  /\ UNCHANGED <<store, runs, existing_keys, selvars, inputvars, hostvars, codecvars>>
  /\ calls' = Append(calls, <<"kitty_input", "pause">>)
  /\ \/ Return(<<>>)
     \/ \E f \in InputFailures : Raise(f, <<"kitty_input">>)

GetPassword ==
  /\ pc = "get_password"
  /\ UNCHANGED <<store, runs, existing_keys, selvars, response, username, hostname, password_confirm, hostvars, codecvars>>
  /\ calls' = Append(calls, <<"get_password", selected_key>>)
  /\ \/ /\ selected_key \in DOMAIN store
        /\ password' = Strip(store[selected_key] \o <<"\n">>)
        /\ Goto("copy")
     \/ /\ UNCHANGED password
        /\ \E stderr \in {<<>>, <<"e">>} :
             IF stderr = <<>> THEN Raise("KittenError", <<"Could not retrieve password">>)
             ELSE Raise("Exception", <<"'str' object has no attribute 'decode'">>)
     \/ /\ UNCHANGED password
        /\ \E f \in {"Exception", "KeyboardInterrupt"} : Raise(f, <<"security">>)

CopyToClipboard ==
  /\ pc = "copy"
  /\ UNCHANGED <<store, runs, existing_keys, selvars, inputvars, hostvars, codecvars>>
  /\ calls' = Append(calls, <<"pbcopy", password>>)
  /\ \/ Return(SSHCommand(username, hostname))
     \/ \E f \in {"KittenError", "Exception", "KeyboardInterrupt"} :
          Raise(f, <<"Failed to copy to clipboard">>)

PromptUsername ==
  /\ pc = "username"
  /\ UNCHANGED <<store, runs, existing_keys, selvars, response, hostname, password, password_confirm, hostvars, codecvars>>
  /\ calls' = Append(calls, <<"kitty_input", "username">>)
  /\ \/ \E raw \in UsernameInputs :
          /\ username' = Strip(kitty_input(raw))
          /\ IF username' = <<>> THEN Raise("KittenError", <<"Username cannot be empty">>)
             ELSE Goto("hostname")
     \/ \E f \in InputFailures : UNCHANGED username /\ Raise(f, <<"kitty_input">>)

\* mutant: an empty hostname is accepted
PromptHostnameNoCheck ==
  /\ pc = "hostname"
  /\ UNCHANGED <<store, runs, existing_keys, selvars, response, username, password, password_confirm, hostvars, codecvars>>
  /\ calls' = Append(calls, <<"kitty_input", "hostname">>)
  /\ \/ \E raw \in HostnameInputs :
          /\ hostname' = Strip(kitty_input(raw))
          /\ Goto("password")
     \/ \E f \in InputFailures : UNCHANGED hostname /\ Raise(f, <<"kitty_input">>)

PromptHostname ==
  /\ pc = "hostname"
  /\ UNCHANGED <<store, runs, existing_keys, selvars, response, username, password, password_confirm, hostvars, codecvars>>
  /\ calls' = Append(calls, <<"kitty_input", "hostname">>)
  /\ \/ \E raw \in HostnameInputs :
          /\ hostname' = Strip(kitty_input(raw))
          /\ IF hostname' = <<>> THEN Raise("KittenError", <<"Hostname cannot be empty">>)
             ELSE Goto("password")
     \/ \E f \in InputFailures : UNCHANGED hostname /\ Raise(f, <<"kitty_input">>)

PromptPassword ==
  /\ pc = "password"
  /\ UNCHANGED <<store, runs, existing_keys, selvars, response, username, hostname, password_confirm, hostvars, codecvars>>
  /\ calls' = Append(calls, <<"getpass", "password">>)
  /\ \/ \E raw \in PasswordInputs :
          /\ password' = raw
          /\ IF password' = <<>> THEN Raise("KittenError", <<"Password cannot be empty">>)
             ELSE Goto("password_confirm")
     \/ \E f \in InputFailures : UNCHANGED password /\ Raise(f, <<"getpass">>)

PromptPasswordConfirm ==
  /\ pc = "password_confirm"
  /\ UNCHANGED <<store, runs, existing_keys, selvars, response, username, hostname, password, hostvars, codecvars>>
  /\ calls' = Append(calls, <<"getpass", "password_confirm">>)
  /\ \/ \E raw \in PasswordInputs :
          /\ password_confirm' = raw
          /\ IF password # password_confirm' THEN Raise("KittenError", <<"Passwords do not match">>)
             ELSE Goto("add")
     \/ \E f \in InputFailures : UNCHANGED password_confirm /\ Raise(f, <<"getpass">>)

\* mutant: a failed add is tried a second time
AddToKeychainRetry ==
  /\ pc = "add"
  /\ UNCHANGED <<runs, existing_keys, selvars, inputvars, hostvars, codecvars>>
  /\ \/ /\ calls' = Append(calls, <<"add", ServiceKey(selected_key, username, hostname), password>>)
        /\ ServiceKey(selected_key, username, hostname) \notin DOMAIN store
        /\ store' = [k \in DOMAIN store \cup {ServiceKey(selected_key, username, hostname)} |->
                       IF k \in DOMAIN store THEN store[k] ELSE password]
        /\ Goto("pause")
     \/ /\ calls' = calls \o << <<"add", ServiceKey(selected_key, username, hostname), password>>,
                               <<"add", ServiceKey(selected_key, username, hostname), password>> >>
        /\ UNCHANGED store
        /\ \E f \in {"KittenError", "Exception", "KeyboardInterrupt"} :
             Raise(f, <<"Error adding SSH connection to keychain">>)

AddToKeychain ==
  /\ pc = "add"
  /\ UNCHANGED <<runs, existing_keys, selvars, inputvars, hostvars, codecvars>>
  /\ calls' = Append(calls, <<"add", ServiceKey(selected_key, username, hostname), password>>)
  /\ \/ /\ ServiceKey(selected_key, username, hostname) \notin DOMAIN store
        /\ store' = [k \in DOMAIN store \cup {ServiceKey(selected_key, username, hostname)} |->
                       IF k \in DOMAIN store THEN store[k] ELSE password]
        /\ Goto("pause")
     \/ /\ UNCHANGED store
        /\ \E f \in {"KittenError", "Exception", "KeyboardInterrupt"} :
             Raise(f, <<"Error adding SSH connection to keychain">>)

\* except KittenError
HandleKittenError ==
  /\ pc = "except_KittenError"
  /\ UNCHANGED <<store, runs, existing_keys, selvars, inputvars, hostvars, codecvars>>
  /\ calls' = calls \o << <<"print_error", error[2]>>, <<"kitty_input", "pause">> >>
  /\ \/ Return(<<>>)
     \/ \E f \in InputFailures : Propagate(f)

\* except Exception
HandleException ==
  /\ pc = "except_Exception"
  /\ UNCHANGED <<store, runs, existing_keys, selvars, inputvars, hostvars, codecvars>>
  /\ calls' = calls \o << <<"print_unexpected", error[2]>>, <<"kitty_input", "pause">> >>
  /\ \/ Return(<<>>)
     \/ \E f \in InputFailures : Propagate(f)

\* mutant: the answer is pasted without looking at it
handle_result_always(w, answer) == IF w = "none" THEN <<>> ELSE <<answer, "Enter">>

\* what handle_result sends to the window w for main's answer
handle_result(w, answer) ==
  IF w = "none" THEN <<>> ELSE IF answer # <<>> THEN <<answer, "Enter">> ELSE <<>>

\* kitty hands what main returned to the result handler
HandleResult ==
  /\ pc = "done" /\ outcome = "returned" /\ target_window = "unset"
  /\ \E w \in {"window", "none"} :
       target_window' = w /\ pasted' = handle_result(w, result)
  /\ UNCHANGED <<store, runs, pc, existing_keys, selvars, inputvars, error, outcome, result, calls, codecvars>>

\* the kitten is launched again on the same keychain
NextInvocation ==
  /\ pc = "done"
  /\ runs < MaxRuns
  /\ runs' = runs + 1
  /\ pc' = "start"
  /\ existing_keys' = <<>>
  /\ fzf_returncode' = -1 /\ fzf_stdout' = None /\ selected_key' = None /\ is_delete' = FALSE
  /\ response' = None /\ username' = None /\ hostname' = None
  /\ password' = None /\ password_confirm' = None
  /\ error' = None /\ outcome' = "running" /\ result' = <<>> /\ calls' = <<>>
  /\ target_window' = "unset" /\ pasted' = <<>>
  /\ UNCHANGED <<store, codecvars>>

Next ==
  \/ GetExistingKeys \/ SelectKeyWithFzf
  \/ ConfirmDelete \/ DeleteFromKeychain \/ Pause
  \/ GetPassword \/ CopyToClipboard
  \/ PromptUsername \/ PromptHostname \/ PromptPassword \/ PromptPasswordConfirm \/ AddToKeychain
  \/ HandleKittenError \/ HandleException
  \/ HandleResult

\* one invocation of main on a keychain in any state
Spec == Init /\ [][Next]_vars

\* invocation after invocation, starting on an empty keychain
SessionInit == Init /\ store = <<>>

SessionNext == Next \/ NextInvocation

SessionSpec == SessionInit /\ [][SessionNext]_vars

\* ------------------------------------------------- the codec on its own
CodecAlphabet == {"a", "|", "@"}

FlowOff ==
  /\ store = <<>> /\ runs = 0 /\ pc = "off" /\ existing_keys = <<>>
  /\ fzf_returncode = -1 /\ fzf_stdout = None /\ selected_key = None /\ is_delete = FALSE
  /\ response = None /\ username = None /\ hostname = None
  /\ password = None /\ password_confirm = None
  /\ error = None /\ outcome = "running" /\ result = <<>> /\ calls = <<>>
  /\ target_window = "unset" /\ pasted = <<>>

CodecInit ==
  /\ FlowOff
  /\ triple = None /\ service = None /\ parsed = None /\ shown = None /\ cstep = "pick"

\* add_ssh_to_keychain builds the key of a profile
EncodeService ==
  /\ cstep = "pick"
  /\ \E n \in StrUpTo(CodecAlphabet, MaxLen), u \in StrUpTo(CodecAlphabet, MaxLen),
        h \in StrUpTo(CodecAlphabet, MaxLen) :
       triple' = <<n, u, h>> /\ service' = ServiceKey(n, u, h)
  /\ cstep' = "parse"
  /\ UNCHANGED <<parsed, shown, flowvars>>

\* a key found in the keychain, whatever wrote it
PickService ==
  /\ cstep = "pick"
  /\ \E k \in StrUpTo(CodecAlphabet, MaxKeyLen) : service' = k
  /\ cstep' = "parse"
  /\ UNCHANGED <<triple, parsed, shown, flowvars>>

ParseService ==
  /\ cstep = "parse"
  /\ parsed' = parse_service_name(service)
  /\ cstep' = "format"
  /\ UNCHANGED <<triple, service, shown, flowvars>>

FormatDisplay ==
  /\ cstep = "format"
  /\ shown' = format_display_name(service)
  /\ cstep' = "shown"
  /\ UNCHANGED <<triple, service, parsed, flowvars>>

CodecNext == EncodeService \/ PickService \/ ParseService \/ FormatDisplay

CodecSpec == CodecInit /\ [][CodecNext]_vars

\* --------------------------------------------------------------- properties
Called(name) == \E i \in 1..Len(calls) : calls[i][1] = name

Prompted(what) == \E i \in 1..Len(calls) : calls[i] = <<"kitty_input", what>>

\* the selector has returned
Selected == fzf_stdout # None

\* the trimmed selector output starts with DELETE:
DeleteOutput == Selected /\ StartsWith(Strip(fzf_stdout), DeletePrefix)

AfterPrefix == SubSeq(Strip(fzf_stdout), Len(DeletePrefix) + 1, Len(Strip(fzf_stdout)))

IsFirstDisplay(i, text) ==
  /\ format_display_name(existing_keys[i]) = text
  /\ \A j \in 1..(i-1) : format_display_name(existing_keys[j]) # text

NoDisplay(text) == \A i \in 1..Len(existing_keys) : format_display_name(existing_keys[i]) # text

CreatingPcs == {"username", "hostname", "password", "password_confirm", "add"}

\* C1: whatever fails at whatever step, main returns the empty string and no
\* exception propagates past main.
C1_MainNeverRaises ==
  pc = "done" => outcome = "returned" /\ (error # None => result = <<>>)

\* C2: when the selector's exit status is 130 the intent is Cancel whatever the
\* output is (text starting with DELETE: included): the key is empty, is_delete
\* is false and main returns the empty string without a prompt or a store call.
C2_Exit130IsCancel ==
  (Selected /\ fzf_returncode = 130) =>
     /\ selected_key = <<>> /\ is_delete = FALSE
     /\ pc = "done" /\ outcome = "returned" /\ result = <<>>
     /\ Len(calls) = 2

\* C2 as amended: when the exit status is 130 and the trimmed output does not
\* start with DELETE:, the intent is Cancel and main returns the empty string
\* without a prompt or a store call.
C2_Exit130WithoutDeleteIsCancel ==
  (Selected /\ fzf_returncode = 130 /\ ~DeleteOutput) =>
     /\ selected_key = <<>> /\ is_delete = FALSE
     /\ pc = "done" /\ outcome = "returned" /\ result = <<>>
     /\ Len(calls) = 2

C2_Witness ==
  /\ Selected /\ fzf_returncode = 130 /\ ~DeleteOutput
  /\ Strip(fzf_stdout) # <<>> /\ existing_keys # <<>>
  /\ pc = "done"

\* C3: trimmed output that starts with DELETE: is a Delete of existingKeys[i]
\* for the first i whose display equals the text after the prefix, and of that
\* text itself when no display equals it; it never connects or creates.
C3_DeletePrefixIsDelete ==
  DeleteOutput =>
     /\ is_delete = TRUE
     /\ \A i \in 1..Len(existing_keys) : IsFirstDisplay(i, AfterPrefix) => selected_key = existing_keys[i]
     /\ NoDisplay(AfterPrefix) => selected_key = AfterPrefix
     /\ pc \notin CreatingPcs \cup {"get_password", "copy"}
     /\ ~Called("get_password") /\ ~Called("pbcopy") /\ ~Called("add") /\ ~Prompted("username")

C3_Witness ==
  /\ DeleteOutput /\ Len(existing_keys) = 2
  /\ format_display_name(existing_keys[1]) = format_display_name(existing_keys[2])
  /\ AfterPrefix = format_display_name(existing_keys[2])
  /\ selected_key = existing_keys[1] /\ is_delete
  /\ Called("delete")

\* the last line of text that is not empty, <<>> when there is none
LastNonEmptyLine(text) ==
  LET lines == SplitLines(text)
  IN IF \E i \in 1..Len(lines) : lines[i] # <<>>
     THEN lines[CHOOSE i \in 1..Len(lines) : lines[i] # <<>> /\ \A j \in (i+1)..Len(lines) : lines[j] = <<>>]
     ELSE <<>>

\* C4: with exit status 0 and no DELETE: prefix the selected display is the
\* last non-empty line of the output: Connect(existingKeys[i]) for the first i
\* whose display equals it, Cancel when none does, never Create or Delete; an
\* exit status other than 0, 1, 130 is Cancel.
C4_Exit0IsConnectOrCancel ==
  (Selected /\ ~DeleteOutput) =>
     /\ fzf_returncode = 0 =>
          /\ is_delete = FALSE
          /\ \A i \in 1..Len(existing_keys) :
               IsFirstDisplay(i, LastNonEmptyLine(fzf_stdout)) => selected_key = existing_keys[i]
          /\ NoDisplay(LastNonEmptyLine(fzf_stdout)) => selected_key = <<>>
          /\ pc \notin CreatingPcs \cup {"confirm_delete", "delete"}
     /\ fzf_returncode \notin {0, 1, 130} => selected_key = <<>> /\ is_delete = FALSE

\* C5: with exit status 1, no DELETE: prefix and a non-empty first line the
\* intent is Create(firstLine): main prompts for the profile and never reads a
\* secret, writes the clipboard or returns a launcher command.
C5_Exit1IsCreate ==
  (Selected /\ ~DeleteOutput /\ fzf_returncode = 1 /\ NewName(Strip(fzf_stdout)) # <<>>) =>
     /\ selected_key = NewName(Strip(fzf_stdout)) /\ is_delete = FALSE
     /\ pc \notin {"get_password", "copy"}
     /\ ~Called("get_password") /\ ~Called("pbcopy")
     /\ pc = "username" \/ Prompted("username")
     /\ result = <<>>

\* C6: a key built from (name, user, host) with no "|" in name and no "@" in
\* user parses back to exactly (name, user, host), whatever host is.
C6_RoundTrip ==
  (cstep \in {"format", "shown"} /\ triple # None
     /\ ~Contains(triple[1], "|") /\ ~Contains(triple[2], "@")) => parsed = triple

C6_Witness ==
  /\ cstep = "shown" /\ triple # None
  /\ Contains(triple[1], "@") /\ Contains(triple[2], "|")
  /\ Contains(triple[3], "|") /\ Contains(triple[3], "@")
  /\ parsed = triple

\* the key has no "|", or nothing after its first "|" is an "@"
Degraded(key) == ~Contains(key, "|") \/ ~Contains(SplitOnce(key, "|")[2], "@")

\* C7: a key with no "|", or with no "@" after its first "|", parses to
\* (the whole key, "", "") and is displayed as the raw key; a key that parses
\* with non-empty user and host is displayed as "name (user@host)".
C7_Degradation ==
  /\ (cstep \in {"format", "shown"} /\ Degraded(service)) => parsed = <<service, <<>>, <<>>>>
  /\ (cstep = "shown" /\ Degraded(service)) => shown = service
  /\ (cstep = "shown" /\ parsed[2] # <<>> /\ parsed[3] # <<>>) =>
        shown = parsed[1] \o <<" ", "(">> \o parsed[2] \o <<"@">> \o parsed[3] \o <<")">>

C7_Witness ==
  /\ cstep = "shown" /\ Contains(service, "|") /\ Degraded(service)
  /\ SplitOnce(service, "|")[1] # <<>> /\ SplitOnce(service, "|")[2] # <<>>
  /\ parsed = <<service, <<>>, <<>>>> /\ shown = service

ErrorShown(msg) == \E i \in 1..Len(calls) : calls[i] = <<"print_error", msg>>

\* C8: once the confirmation is answered, deleteEntry is called iff the
\* trimmed, lower-cased response is neither "no" nor "n" (an empty response
\* deletes), and either way main returns the empty string.
C8_DeleteUnlessNo ==
  (pc = "done" /\ response # None) =>
     /\ Called("delete") <=> response \notin { <<"n", "o">>, <<"n">> }
     /\ outcome = "returned" /\ result = <<>>

CannotDelete == <<"Cannot delete: does not exist">>

\* the trimmed output starts with DELETE: and the key is not a listed key
DeleteUnknown == DeleteOutput /\ ~InKeys(selected_key, existing_keys)

UnknownEntryReported ==
  /\ \/ pc = "except_KittenError" /\ error = <<"KittenError", CannotDelete>>
     \/ pc = "done" /\ ErrorShown(CannotDelete)
  /\ ~Prompted("confirm_delete") /\ ~Called("delete")

\* C9: a Delete of a key that is not a listed key, the empty text after the
\* prefix included, fails with the unknown-entry error, which is displayed;
\* no confirmation is asked and deleteEntry is never called.
C9_UnknownDeleteFails == DeleteUnknown => UnknownEntryReported

\* C9 as amended: a Delete of a non-empty key that is not a listed key fails
\* with the unknown-entry error, which is displayed, without a confirmation or
\* a deleteEntry call; when the text after the prefix is empty main returns the
\* empty string at once, with no error displayed.
C9_UnknownNonEmptyDeleteFails ==
  /\ (DeleteUnknown /\ selected_key # <<>>) => UnknownEntryReported
  /\ (DeleteOutput /\ AfterPrefix = <<>>) =>
        /\ selected_key = <<>>
        /\ pc = "done" /\ outcome = "returned" /\ result = <<>> /\ Len(calls) = 2

C9_Witness ==
  /\ DeleteUnknown /\ selected_key # <<>> /\ existing_keys # <<>>
  /\ pc = "done" /\ outcome = "returned" /\ ErrorShown(CannotDelete)

AddCalls == SelectSeq(calls, LAMBDA c : c[1] = "add")

ValidationMessages ==
  { <<"Username cannot be empty">>, <<"Hostname cannot be empty">>,
    <<"Password cannot be empty">>, <<"Passwords do not match">> }

\* C10: addEntry is called only after the four validations passed, once, with
\* the key name|username@hostname and the entered secret, and then main's
\* result is the empty string; a failed validation is reported and addEntry
\* is not called.
C10_AddOnlyWhenValid ==
  /\ Called("add") =>
        /\ username # <<>> /\ hostname # <<>> /\ password # <<>> /\ password_confirm = password
        /\ AddCalls = << <<"add", selected_key \o <<"|">> \o username \o <<"@">> \o hostname, password>> >>
  /\ (Called("add") /\ pc = "done") => outcome = "returned" /\ result = <<>>
  /\ (pc = "done" /\ error # None /\ error[2] \in ValidationMessages) =>
        ErrorShown(error[2]) /\ ~Called("add")

InvalidFormat == <<"Invalid SSH connection format">>

\* the selection is a listed key that is not to be deleted: the Connecting state
Connecting == Selected /\ selected_key # <<>> /\ ~is_delete /\ InKeys(selected_key, existing_keys)

Malformed(key) == parse_service_name(key)[2] = <<>> \/ parse_service_name(key)[3] = <<>>

\* C11: connecting to a key that decodes with an empty username or hostname
\* fails with the malformed-entry error: getSecret is never called, the
\* clipboard is never written and main's result is the empty string.
C11_MalformedNeverConnects ==
  (Connecting /\ Malformed(selected_key)) =>
     /\ ~Called("get_password") /\ ~Called("pbcopy")
     /\ \/ pc = "except_KittenError" /\ error = <<"KittenError", InvalidFormat>>
        \/ pc = "done" /\ ErrorShown(InvalidFormat) /\ outcome = "returned" /\ result = <<>>

\* text ends with tail
EndsWith(text, tail) ==
  Len(text) >= Len(tail) /\ SubSeq(text, Len(text) - Len(tail) + 1, Len(text)) = tail

UserAtHost(key) == parse_service_name(key)[2] \o <<"@">> \o parse_service_name(key)[3]

\* C12: connecting to a well-formed key calls getSecret(key), then writes the
\* value it returned to the clipboard, then returns the launcher command; the
\* result is non-empty and embeds user@host only if both succeeded, and if
\* either fails the result is empty and no later step runs.
C12_ConnectInOrder ==
  (Connecting /\ ~Malformed(selected_key)) =>
     /\ Len(calls) >= 3 => calls[3] = <<"get_password", selected_key>>
     /\ (Len(calls) >= 4 /\ calls[4][1] = "pbcopy") =>
           calls[4] = <<"pbcopy", password>> /\ password # None
     /\ pc = "done" =>
           /\ outcome = "returned"
           /\ IF error = None
              THEN /\ Len(calls) = 4 /\ calls[4][1] = "pbcopy"
                   /\ result # <<>> /\ EndsWith(result, <<" ">> \o UserAtHost(selected_key))
              ELSE /\ result = <<>>
                   /\ password = None => ~Called("pbcopy")

CouldNotRetrieve == <<"Could not retrieve password">>

\* the last call was the store read and it ended in an exception of the command
ReadCommandFailed ==
  /\ pc \in {"except_KittenError", "except_Exception"}
  /\ calls[Len(calls)][1] = "get_password"
  /\ error[2] # <<"security">>

\* C13: whenever the store read command fails for the selected key, with or
\* without text on its error stream, getSecret fails with the KittenError
\* 'Could not retrieve password', handled by the except KittenError clause.
C13_ReadFailureIsKittenError ==
  ReadCommandFailed => pc = "except_KittenError" /\ error = <<"KittenError", CouldNotRetrieve>>

\* how the listing of this invocation ended: "ok", "dump_failed" or "raised"
Listing == IF calls = <<>> THEN "none" ELSE calls[1][2]

\* C14: whenever the store listing fails, a failure status of the dump command
\* included, listKeys fails with the store-query error and the selector is
\* never run; the list is empty only when the listing succeeded and the store
\* has no entries.
C14_ListingFailureStops ==
  /\ Listing \in {"dump_failed", "raised"} => pc # "select" /\ ~Called("fzf")
  /\ (Listing # "none" /\ pc = "select" /\ existing_keys = <<>>) => Listing = "ok" /\ store = <<>>

\* main returned the command after a store read and a clipboard write that succeeded
ConnectSucceeded ==
  /\ pc = "done" /\ outcome = "returned" /\ error = None
  /\ Connecting /\ Called("get_password") /\ calls[Len(calls)] = <<"pbcopy", password>>

\* C15: the host pastes into the target window, and sends Enter, iff the
\* window exists and main's result is non-empty; the result is non-empty only
\* after a successful Connect, so nothing is pasted after a Cancel, a Create, a
\* Delete or an error.
C15_PasteIffAnswer ==
  /\ target_window = "unset" => pasted = <<>>
  /\ target_window # "unset" =>
        /\ pasted # <<>> <=> (target_window = "window" /\ result # <<>>)
        /\ pasted # <<>> => pasted = <<result, "Enter">>
  /\ result # <<>> => ConnectSucceeded
  /\ (selected_key = <<>> \/ Prompted("username") \/ Prompted("confirm_delete")
        \/ Called("add") \/ Called("delete") \/ error # None) => pasted = <<>>

C15_Witness ==
  /\ target_window = "window" /\ ConnectSucceeded
  /\ pasted = <<result, "Enter">> /\ EndsWith(result, UserAtHost(selected_key))

DeleteCalls == SelectSeq(calls, LAMBDA c : c[1] = "delete")

FzfCalls == SelectSeq(calls, LAMBDA c : c[1] = "fzf")

\* C16: in one invocation the selector is run at most once and addEntry and
\* deleteEntry together are called at most once; on the Cancel path and on the
\* Connecting path neither is called and the stored keys do not change.
C16_SinglePass ==
  /\ [](/\ Len(FzfCalls) <= 1
        /\ Len(AddCalls) + Len(DeleteCalls) <= 1
        /\ ((Selected /\ selected_key = <<>>) \/ Connecting) => AddCalls = <<>> /\ DeleteCalls = <<>>)
  /\ [][store' # store =>
          /\ pc \in {"add", "delete"}
          /\ ~Connecting /\ selected_key # <<>>
          /\ Len(AddCalls') + Len(DeleteCalls') = 1]_vars

C16_Witness ==
  /\ pc = "done" /\ Len(FzfCalls) = 1 /\ Len(AddCalls) = 1 /\ DeleteCalls = <<>>
  /\ AddCalls[1][2] \in DOMAIN store

\* the part of a key after its first "|"
Connection(key) == SplitOnce(key, "|")[2]

\* the profile typed in the Creating state keeps clear of the delimiters: the
\* username does not begin with "@" and no "@" follows the first "|" of the name
CleanProfile(name, user) ==
  /\ user # <<>> /\ user[1] # "@"
  /\ Contains(name, "|") => ~StartsWith(SplitOnce(name, "|")[2], <<"@">>)

SameDisplay(k1, k2) == k1 # k2 /\ format_display_name(k1) = format_display_name(k2)

C19_SecretRoundTrip ==
  (Connecting /\ selected_key \in DOMAIN store) =>
     \A i \in 1..Len(calls) : calls[i][1] = "pbcopy" => calls[i][2] = store[selected_key]

====
